---------------------------- MODULE Spec2Model ----------------------------
(***************************************************************************)
(* Model of Reconstruct/main.py: the script that opens a USB capture,      *)
(* iterates its packets, and for every packet with transfer_type "0x00"    *)
(* and src "host" appends raw[header_len:] to out.raw.                     *)
(*                                                                         *)
(* The capture library (pyshark/tshark) and the file system are outside    *)
(* the script; their failures are nondeterministic choices at the          *)
(* statements where they can surface.                                      *)
(***************************************************************************)
EXTENDS Integers, Sequences, FiniteSets

\* ---------------------------------------------------------------- bounds
MaxRecords == 2      \* packets in the capture file
MaxFrameLen == 2     \* bytes in one raw frame

\* ------------------------------------------------------------ input space
\* usb.transfer_type tokens: "0x00" is the one the script selects
TransferTypes == {"0x00", "0x01"}
\* usb.src tokens: "host" is the one the script selects
Sources == {"host", "1.2.1"}
\* usb.usbpcap_header_len as the decimal text the dissector emits, one
\* character per element
HeaderLenTokens == { <<"0">>, <<"1">>, <<"-", "1">> }

\* Bytes of the k-th frame of the capture: every byte of the capture is
\* distinct, so any reordering, duplication or loss is visible.
FrameBytes(k, n) == [i \in 1..n |-> 16 * k + i]

\* What the capture says about one packet, before its position is known
PacketShapes ==
    [hasUsb : {FALSE}, transfer_type : {"0x01"}, src : {"1.2.1"},
     usbpcap_header_len : {<<"0">>}, len : 0..MaxFrameLen]
    \cup
    [hasUsb : {TRUE}, transfer_type : TransferTypes, src : Sources,
     usbpcap_header_len : HeaderLenTokens, len : 0..MaxFrameLen]

\* packet k of the capture file: layer presence, the three usb fields, raw bytes
MkPacket(k, s) ==
    [hasUsb |-> s.hasUsb, transfer_type |-> s.transfer_type, src |-> s.src,
     usbpcap_header_len |-> s.usbpcap_header_len,
     raw |-> FrameBytes(k, s.len)]

\* content of out.raw before the script starts
OutFilesBefore ==
    { [exists |-> FALSE, bytes |-> <<>>],
      [exists |-> TRUE, bytes |-> <<255>>] }

\* ------------------------------------------------------- pure operations
DigitValue(c) ==
    CASE c = "0" -> 0 [] c = "1" -> 1 [] c = "2" -> 2 [] c = "3" -> 3
      [] c = "4" -> 4 [] c = "5" -> 5 [] c = "6" -> 6 [] c = "7" -> 7
      [] c = "8" -> 8 [] c = "9" -> 9

RECURSIVE DigitsValue(_)
\* value of a run of decimal digits, most significant first
DigitsValue(ds) ==
    IF ds = <<>> THEN 0
    ELSE 10 * DigitsValue(SubSeq(ds, 1, Len(ds) - 1)) + DigitValue(ds[Len(ds)])

\* int(text) for a decimal literal with an optional sign
PyInt(text) ==
    IF text[1] = "-" THEN 0 - DigitsValue(Tail(text))
    ELSE IF text[1] = "+" THEN DigitsValue(Tail(text))
    ELSE DigitsValue(text)

\* B[:h] where B[h:] was meant
PySliceFrom_prefix(B, h) ==
    LET n == Len(B)
        start == IF h < 0 THEN (IF n + h < 0 THEN 0 ELSE n + h)
                 ELSE (IF h > n THEN n ELSE h)
    IN SubSeq(B, 1, start)

\* B[max(h, 0):]: a negative start taken as the beginning of B
PySliceFrom_clamped(B, h) ==
    LET n == Len(B)
        start == IF h < 0 THEN 0 ELSE (IF h > n THEN n ELSE h)
    IN SubSeq(B, start + 1, n)

\* B[h:] with Python's slice rules: a negative start counts from the end,
\* and the start is clamped into 0..len(B)
PySliceFrom(B, h) ==
    LET n == Len(B)
        start == IF h < 0 THEN (IF n + h < 0 THEN 0 ELSE n + h)
                 ELSE (IF h > n THEN n ELSE h)
    IN SubSeq(B, start + 1, n)

\* the condition without its second conjunct
Matches_typeOnly(usb) == usb.transfer_type = "0x00"

\* the condition of the if statement
Matches(usb) == usb.transfer_type = "0x00" /\ usb.src = "host"

\* ------------------------------------------------------------------ state
VARIABLES
    nPackets,     \* number of packets in challenge.pcap
    capture,      \* the packets the dissector has decoded so far, in capture
                  \* order (the file is decoded lazily, as the loop asks)
    outBefore,    \* out.raw as it was before the script started
    outFile,      \* out.raw now
    pc,           \* statement the script is at
    capOpen,      \* the FileCapture object is live and has not been closed
    fOpen,        \* the file object f is open
    opens,        \* how many times out.raw has been opened
    idx,          \* position of the capture iterator: packets yielded so far
    yielded,      \* the positions the iterator yielded, in order
    header_len,   \* the script's variable header_len
    data,         \* the script's variable data
    printed,      \* what print() has written to stdout
    exc           \* the exception that is propagating, or "none"

vars == <<nPackets, capture, outBefore, outFile, pc, capOpen, fOpen, opens, idx,
          yielded, header_len, data, printed, exc>>

packet == capture[idx]

Init ==
    /\ nPackets \in 0..MaxRecords
    /\ capture = <<>>
    /\ outBefore \in OutFilesBefore
    /\ outFile = outBefore
    /\ pc = "start"
    /\ capOpen = FALSE
    /\ fOpen = FALSE
    /\ opens = 0
    /\ idx = 0
    /\ yielded = <<>>
    /\ header_len = 0
    /\ data = <<>>
    /\ printed = <<>>
    /\ exc = "none"

\* ---------------------------------------------------------------- actions
\* line 4: cap = pyshark.FileCapture(...)
OpenCapture ==
    /\ pc = "start"
    /\ \/ /\ capOpen' = TRUE
          /\ pc' = "open"
          /\ exc' = exc
       \/ \* the path does not name a readable file
          /\ capOpen' = capOpen
          /\ pc' = "failed"
          /\ exc' = "CaptureOpenError"
    /\ UNCHANGED <<nPackets, capture, outBefore, outFile, fOpen, opens, idx, yielded,
                   header_len, data, printed>>

\* open("out.raw", "ab"): the file is created but never truncated
OpenSink_append ==
    /\ pc = "open"
    /\ \/ /\ outFile' = [exists |-> TRUE, bytes |-> outFile.bytes]
          /\ fOpen' = TRUE
          /\ opens' = opens + 1
          /\ pc' = "loop"
          /\ exc' = exc
       \/ /\ UNCHANGED <<outFile, fOpen, opens>>
          /\ pc' = "failed"
          /\ exc' = "OutputWriteError"
    /\ UNCHANGED <<nPackets, capture, outBefore, capOpen, idx, yielded, header_len,
                   data, printed>>

\* line 7: open("out.raw", "wb") creates or truncates the file
OpenSink ==
    /\ pc = "open"
    /\ \/ /\ outFile' = [exists |-> TRUE, bytes |-> <<>>]
          /\ fOpen' = TRUE
          /\ opens' = opens + 1
          /\ pc' = "loop"
          /\ exc' = exc
       \/ \* the file cannot be created
          /\ UNCHANGED <<outFile, fOpen, opens>>
          /\ pc' = "failed"
          /\ exc' = "OutputWriteError"
    /\ UNCHANGED <<nPackets, capture, outBefore, capOpen, idx, yielded, header_len,
                   data, printed>>

\* an iterator that reports exhaustion after its first packet
NextPacket_stopsEarly ==
    /\ pc = "loop"
    /\ \/ /\ idx = 0
          /\ idx < nPackets
          /\ \E s \in PacketShapes :
                capture' = Append(capture, MkPacket(idx + 1, s))
          /\ idx' = idx + 1
          /\ yielded' = Append(yielded, idx + 1)
          /\ pc' = "body"
          /\ exc' = exc
       \/ /\ idx = nPackets \/ idx > 0
          /\ pc' = "exit"
          /\ UNCHANGED <<capture, idx, yielded, exc>>
    /\ UNCHANGED <<nPackets, outBefore, outFile, capOpen, fOpen, opens,
                   header_len, data, printed>>

\* an iterator that decodes the first two packets and yields only the second
NextPacket_skipsFirst ==
    /\ pc = "loop"
    /\ \/ /\ idx = 0
          /\ nPackets >= 2
          /\ \E s1, s2 \in PacketShapes :
                capture' = <<MkPacket(1, s1), MkPacket(2, s2)>>
          /\ idx' = 2
          /\ yielded' = Append(yielded, 2)
          /\ pc' = "body"
          /\ exc' = exc
       \/ /\ idx < nPackets
          /\ idx > 0 \/ nPackets < 2
          /\ \E s \in PacketShapes :
                capture' = Append(capture, MkPacket(idx + 1, s))
          /\ idx' = idx + 1
          /\ yielded' = Append(yielded, idx + 1)
          /\ pc' = "body"
          /\ exc' = exc
       \/ /\ idx = nPackets
          /\ pc' = "exit"
          /\ UNCHANGED <<capture, idx, yielded, exc>>
    /\ UNCHANGED <<nPackets, outBefore, outFile, capOpen, fOpen, opens,
                   header_len, data, printed>>

\* line 8: the for statement asks the capture for its next packet
NextPacket ==
    /\ pc = "loop"
    /\ \/ \* the dissector decodes the next packet of the file
          /\ idx < nPackets
          /\ \E s \in PacketShapes :
                capture' = Append(capture, MkPacket(idx + 1, s))
          /\ idx' = idx + 1
          /\ yielded' = Append(yielded, idx + 1)
          /\ pc' = "body"
          /\ exc' = exc
       \/ \* the file is exhausted
          /\ idx = nPackets
          /\ pc' = "exit"
          /\ UNCHANGED <<capture, idx, yielded, exc>>
       \/ \* the file is not a capture: the dissector fails on first read
          /\ idx = 0
          /\ pc' = "exit"
          /\ exc' = "CaptureOpenError"
          /\ UNCHANGED <<capture, idx, yielded>>
       \/ \* the next record cannot be decoded
          /\ idx > 0
          /\ idx < nPackets
          /\ pc' = "exit"
          /\ exc' = "CaptureRecordError"
          /\ UNCHANGED <<capture, idx, yielded>>
    /\ UNCHANGED <<nPackets, outBefore, outFile, capOpen, fOpen, opens,
                   header_len, data, printed>>

\* line 9 on a packet without a usb layer: packet.usb raises AttributeError
BodyNoUsb ==
    /\ pc = "body"
    /\ ~packet.hasUsb
    /\ pc' = "exit"
    /\ exc' = "AttributeError"
    /\ UNCHANGED <<nPackets, capture, outBefore, outFile, capOpen, fOpen, opens, idx,
                   yielded, header_len, data, printed>>

\* lines 9-10: the condition is false, the body is skipped
BodySkip ==
    /\ pc = "body"
    /\ packet.hasUsb
    /\ ~Matches(packet)
    /\ pc' = "loop"
    /\ UNCHANGED <<nPackets, capture, outBefore, outFile, capOpen, fOpen, opens, idx,
                   yielded, header_len, data, printed, exc>>

\* the payload inserted at the front of the file instead of appended
BodyWrite_prepend ==
    /\ pc = "body"
    /\ packet.hasUsb
    /\ Matches(packet)
    /\ header_len' = PyInt(packet.usbpcap_header_len)
    /\ data' = PySliceFrom(packet.raw, header_len')
    /\ printed' = Append(printed, Len(data'))
    /\ outFile' = [outFile EXCEPT !.bytes = data' \o @]
    /\ pc' = "loop"
    /\ exc' = exc
    /\ UNCHANGED <<nPackets, capture, outBefore, capOpen, fOpen, opens, idx, yielded>>

\* lines 9-14: the condition is true, the payload is printed and written
BodyWrite ==
    /\ pc = "body"
    /\ packet.hasUsb
    /\ Matches(packet)
    /\ header_len' = PyInt(packet.usbpcap_header_len)
    /\ data' = PySliceFrom(packet.raw, header_len')
    /\ printed' = Append(printed, Len(data'))
    /\ \/ /\ outFile' = [outFile EXCEPT !.bytes = @ \o data']
          /\ pc' = "loop"
          /\ exc' = exc
       \/ \* f.write fails
          /\ outFile' = outFile
          /\ pc' = "exit"
          /\ exc' = "OutputWriteError"
    /\ UNCHANGED <<nPackets, capture, outBefore, capOpen, fOpen, opens, idx, yielded>>

\* a with block that empties the file when an exception leaves it
ExitWith_cleanup ==
    /\ pc = "exit"
    /\ fOpen' = FALSE
    /\ pc' = IF exc = "none" THEN "done" ELSE "failed"
    /\ outFile' = IF exc = "none" THEN outFile
                  ELSE [exists |-> TRUE, bytes |-> <<>>]
    /\ UNCHANGED <<nPackets, capture, outBefore, capOpen, opens, idx, yielded,
                   header_len, data, printed, exc>>

\* end of the with block (line 7), normal or exceptional: f is closed
ExitWith ==
    /\ pc = "exit"
    /\ fOpen' = FALSE
    /\ pc' = IF exc = "none" THEN "done" ELSE "failed"
    /\ UNCHANGED <<nPackets, capture, outBefore, outFile, capOpen, opens, idx, yielded,
                   header_len, data, printed, exc>>

Next ==
    \/ OpenCapture
    \/ OpenSink
    \/ NextPacket
    \/ BodyNoUsb
    \/ BodySkip
    \/ BodyWrite
    \/ ExitWith

Spec == Init /\ [][Next]_vars

\* the interpreter keeps executing statements until the script ends
FairSpec == Spec /\ WF_vars(Next)

\* ------------------------------------------------- reference definitions
\* the packet passes the filter of line 10
Selected(p) == p.hasUsb /\ p.transfer_type = "0x00" /\ p.src = "host"

\* the integer the header-length text denotes
HeaderLen(p) == PyInt(p.usbpcap_header_len)

\* B from offset h, counted from the beginning of B, to the end
FromOffset(B, h) ==
    IF h >= Len(B) THEN <<>>
    ELSE [i \in 1..(Len(B) - (IF h < 0 THEN 0 ELSE h)) |->
             B[(IF h < 0 THEN 0 ELSE h) + i]]

\* the last k bytes of B (all of B when k exceeds its length)
LastBytes(B, k) ==
    IF k >= Len(B) THEN B
    ELSE [i \in 1..k |-> B[Len(B) - k + i]]

RECURSIVE ExpectedOutput(_)
\* the payloads of the selected packets of recs, in order, concatenated
ExpectedOutput(recs) ==
    IF Len(recs) = 0 THEN <<>>
    ELSE LET last == recs[Len(recs)]
         IN ExpectedOutput(SubSeq(recs, 1, Len(recs) - 1))
              \o (IF Selected(last)
                  THEN PySliceFrom(last.raw, HeaderLen(last))
                  ELSE <<>>)

RECURSIVE SelectedRawLen(_)
\* sum of the raw frame lengths of the selected packets of recs
SelectedRawLen(recs) ==
    IF Len(recs) = 0 THEN 0
    ELSE SelectedRawLen(SubSeq(recs, 1, Len(recs) - 1))
           + (IF Selected(recs[Len(recs)]) THEN Len(recs[Len(recs)].raw)
              ELSE 0)

IsPrefix(s, t) == Len(s) <= Len(t) /\ SubSeq(t, 1, Len(s)) = s

Terminated == pc \in {"done", "failed"}

\* packets whose loop body has run to its end
Completed ==
    IF pc = "body" THEN idx - 1
    ELSE IF exc \in {"AttributeError", "OutputWriteError"} /\ idx > 0
         THEN idx - 1
    ELSE idx

TypeOK ==
    /\ pc \in {"start", "open", "loop", "body", "exit", "done", "failed"}
    /\ nPackets \in 0..MaxRecords
    /\ Len(capture) <= nPackets
    /\ idx \in 0..Len(capture)
    /\ opens \in 0..1

\* ------------------------------------------------------------------ claims

\* C1: when the run completes, every packet of the file has been decoded and
\* out.raw holds exactly the concatenation, in
\* capture order, of raw[header_len:] of every packet with transfer_type
\* "0x00" and src "host", and nothing of what the file held before; it is
\* empty when no packet matches.
C1_OutputIsOrderedConcatenation ==
    pc = "done" =>
        /\ Len(capture) = nPackets
        /\ outFile = [exists |-> TRUE, bytes |-> ExpectedOutput(capture)]

C1_Witness ==
    /\ pc = "done"
    /\ outBefore.exists
    /\ Len(capture) >= 2
    /\ Selected(capture[2])
    /\ ~Selected(capture[1])
    /\ Len(outFile.bytes) >= 1
    /\ Len(outFile.bytes) < Len(capture[2].raw)

\* C2: a packet without a usb layer is skipped: the body step raises no
\* error, writes nothing, and the loop goes on to the next packet.
C2_NoUsbLayerIsSkipped ==
    [][(pc = "body" /\ ~packet.hasUsb) =>
          (pc' = "loop" /\ exc' = "none" /\ outFile' = outFile)]_vars

\* C3: once the run has ended, on any path, neither the capture nor the
\* output file is still held.
C3_ResourcesReleasedAtEnd ==
    Terminated => (~capOpen /\ ~fOpen)

\* C4: the body step on a packet whose transfer_type is not "0x00" or whose
\* src is not "host" changes neither out.raw nor stdout nor any other
\* variable of the script, and the loop goes on.
C4_NonMatchingHasNoEffect ==
    [][(pc = "body" /\ packet.hasUsb
        /\ (packet.transfer_type # "0x00" \/ packet.src # "host")) =>
          (/\ outFile' = outFile
           /\ printed' = printed
           /\ data' = data
           /\ header_len' = header_len
           /\ exc' = exc
           /\ pc' = "loop")]_vars

C4_Witness ==
    /\ pc = "loop"
    /\ idx >= 2
    /\ Selected(capture[1])
    /\ capture[idx].hasUsb
    /\ capture[idx].transfer_type = "0x00"
    /\ capture[idx].src # "host"
    /\ Len(capture[idx].raw) > 0
    /\ Len(outFile.bytes) > 0

\* C5: for a matching packet with header length h >= 0 and raw frame B, a
\* successful body step appends exactly B[h+1], ..., B[len B]: all of B when
\* h = 0 and nothing when h >= len B; slicing itself raises nothing, so the
\* only way the step does not continue the loop is a failed write.
C5_AppendsFrameFromHeaderLen ==
    [][(pc = "body" /\ Selected(packet) /\ HeaderLen(packet) >= 0) =>
          LET h == HeaderLen(packet)
              B == packet.raw
          IN /\ pc' = "loop" \/ exc' = "OutputWriteError"
             /\ pc' = "loop" =>
                  /\ exc' = "none"
                  /\ Len(outFile'.bytes) =
                       Len(outFile.bytes) + (IF h >= Len(B) THEN 0
                                             ELSE Len(B) - h)
                  /\ IsPrefix(outFile.bytes, outFile'.bytes)
                  /\ \A i \in 1..(Len(B) - h) :
                        outFile'.bytes[Len(outFile.bytes) + i] = B[h + i]
                  /\ h = 0 => outFile'.bytes = outFile.bytes \o B
                  /\ h >= Len(B) => outFile'.bytes = outFile.bytes]_vars

C5_Witness ==
    /\ pc = "loop"
    /\ idx >= 2
    /\ Selected(capture[1])
    /\ HeaderLen(capture[1]) = 0
    /\ Len(capture[1].raw) >= 2
    /\ Selected(capture[2])
    /\ HeaderLen(capture[2]) >= Len(capture[2].raw)
    /\ Len(capture[2].raw) >= 1
    /\ idx = 2
    /\ outFile.bytes = capture[1].raw
    /\ printed = <<Len(capture[1].raw), 0>>

\* C6: while the file is open its content is the concatenation, in capture
\* order, of the payloads of exactly the matching packets whose body has
\* run, each once; and the content only ever grows by appending.
C6_SinkIsConcatenationSoFar ==
    /\ [](fOpen => outFile.bytes = ExpectedOutput(SubSeq(capture, 1, Completed)))
    /\ [][(fOpen /\ fOpen') => IsPrefix(outFile.bytes, outFile'.bytes)]_vars

C6_Witness ==
    /\ fOpen
    /\ pc = "loop"
    /\ idx >= 2
    /\ Selected(capture[1])
    /\ Selected(capture[2])
    /\ HeaderLen(capture[1]) = 1
    /\ HeaderLen(capture[2]) = 0
    /\ Len(capture[1].raw) >= 2
    /\ Len(capture[2].raw) >= 2
    /\ Len(outFile.bytes) >= 3

\* C7: an error aborts the run: from the moment an exception propagates no
\* packet is fetched, nothing is written or printed, the exception is not
\* cleared, and the failed run leaves out.raw holding the payloads of the
\* matching packets processed before the failing step (or, when the file
\* was never opened, what it held before the run).
C7_ErrorAbortsAndKeepsPartialOutput ==
    /\ [](pc = "failed" =>
            /\ exc # "none"
            /\ outFile = IF opens = 0 THEN outBefore
                         ELSE [exists |-> TRUE,
                               bytes |-> ExpectedOutput(
                                            SubSeq(capture, 1, Completed))])
    /\ [][exc # "none" =>
            /\ exc' = exc
            /\ yielded' = yielded
            /\ idx' = idx
            /\ outFile' = outFile
            /\ printed' = printed
            /\ pc' \in {"exit", "failed"}]_vars

C7_Witness ==
    /\ pc = "failed"
    /\ exc = "OutputWriteError"
    /\ opens = 1
    /\ idx >= 2
    /\ Len(outFile.bytes) >= 1
    /\ Selected(capture[idx])
    /\ Len(data) >= 1

\* C8 (as claimed): after a capture-open error out.raw is absent or empty,
\* whatever it held before the run.
C8_OpenErrorLeavesNoContent ==
    (pc = "failed" /\ exc = "CaptureOpenError") =>
        (~outFile.exists \/ outFile.bytes = <<>>)

\* C8 (amended): after a capture-open error the run has written and
\* printed nothing and fetched no packet; out.raw is untouched (absent or
\* with its earlier content) when the error was raised before the file was
\* opened, and an existing zero-byte file when it was raised after.
C8_OpenErrorWritesNothing ==
    (pc = "failed" /\ exc = "CaptureOpenError") =>
        /\ printed = <<>>
        /\ yielded = <<>>
        /\ opens = 0 => (outFile = outBefore /\ ~capOpen)
        /\ opens # 0 => outFile = [exists |-> TRUE, bytes |-> <<>>]

C8_Witness ==
    /\ pc = "failed"
    /\ exc = "CaptureOpenError"
    /\ opens = 1
    /\ outBefore.exists
    /\ outBefore.bytes # <<>>
    /\ outFile.bytes = <<>>

\* C9: under fair execution every run terminates; a run that ends without
\* an exception ends in "done", having been yielded packets 1, 2, ..., n of
\* the capture once each in that order, with out.raw opened exactly once,
\* and no packet is ever yielded before the file has been opened.
C9_TerminatesAfterSinglePass ==
    /\ <>Terminated
    /\ []((Terminated /\ exc = "none") => pc = "done")
    /\ [](pc = "done" =>
            /\ exc = "none"
            /\ yielded = [k \in 1..nPackets |-> k]
            /\ Len(capture) = nPackets
            /\ idx = nPackets
            /\ opens = 1)
    /\ [](yielded # <<>> => opens = 1)

C9_Witness ==
    /\ pc = "done"
    /\ nPackets >= 2
    /\ yielded = [k \in 1..nPackets |-> k]
    /\ opens = 1
    /\ ~fOpen

\* C10 (as claimed): for every integer h the bytes written for a matching
\* packet are its raw frame from offset h counted from the beginning (a
\* negative h selecting from offset 0), and the file is never longer than
\* the raw frames of the matching packets together.
C10_SliceCountsFromFrameStart ==
    /\ (pc = "loop" /\ idx > 0 /\ Selected(capture[idx])) =>
          data = FromOffset(capture[idx].raw, HeaderLen(capture[idx]))
    /\ fOpen => Len(outFile.bytes) <= SelectedRawLen(SubSeq(capture, 1, idx))

\* C10 (amended): for every integer h the bytes written for a matching
\* packet are a suffix of its raw frame: the frame from offset h when
\* h >= 0 (nothing when h >= len), and the last min(-h, len) bytes when
\* h < 0, that is, a negative h counts back from the frame's end; the file
\* is never longer than the raw frames of the matching packets together.
C10_SliceIsSuffixOfFrame ==
    /\ (pc = "loop" /\ idx > 0 /\ Selected(capture[idx])) =>
          LET h == HeaderLen(capture[idx])
              B == capture[idx].raw
          IN /\ header_len = h
             /\ h >= 0 => data = FromOffset(B, h)
             /\ h < 0 => data = LastBytes(B, 0 - h)
             /\ printed[Len(printed)] = Len(data)
             /\ Len(outFile.bytes) >= Len(data)
             /\ SubSeq(outFile.bytes, Len(outFile.bytes) - Len(data) + 1,
                       Len(outFile.bytes)) = data
    /\ fOpen => Len(outFile.bytes) <= SelectedRawLen(SubSeq(capture, 1, idx))

C10_Witness ==
    /\ pc = "loop"
    /\ idx > 0
    /\ Selected(capture[idx])
    /\ HeaderLen(capture[idx]) < 0
    /\ Len(capture[idx].raw) >= 2
    /\ data = <<capture[idx].raw[Len(capture[idx].raw)]>>
    /\ Len(outFile.bytes) >= 1

=============================================================================
